---- MODULE Spec2Model ----
(***************************************************************************)
(* Model of the balanced Spotify title collector                           *)
(* (src/src/data_collection/optimised_title_collector.py).                 *)
(*                                                                         *)
(* The collector is sequential: collect_tracks loops over the genres,      *)
(* _collect_genre_tracks loops over the years and the query attempts of a  *)
(* (genre, year) cell, and _search_tracks pages through the search API.    *)
(* The search API is the environment: every page request is answered by an *)
(* exception, an empty page or a page of catalog items.                    *)
(***************************************************************************)
EXTENDS Integers, Sequences, FiniteSets, TLC

(***************************************************************************)
(* Bounds of the model.                                                    *)
(***************************************************************************)
\* how many of the collector's genres a modelled run iterates over
NumGenres == 2
\* how many of the collector's years a modelled run iterates over
NumYears == 2
\* how many query variants of each genre the modelled catalog keeps
NumVariants == 1
\* largest caller-supplied target_per_genre of a modelled run
MaxTotal == 1
\* items of one page the upstream chooses one by one (a longer page repeats
\* the last of them)
MaxPageLen == 2
\* items and errors the upstream serves during one run before it only
\* answers with empty pages
RunBudget == 2
\* items and errors the upstream serves to a single search call checked on
\* its own
CallBudget == 10

\* longest title of an item, apart from the titles listed by name
MaxTitleLen == 3
\* largest absolute value of a caller-supplied total whose targets are
\* computed on their own
MaxArg == 60

(***************************************************************************)
(* Program constants.                                                      *)
(***************************************************************************)
\* _search_tracks: max_offset = 500
max_offset == 500
\* _search_tracks: sp.search(..., limit=50, ...)
page_limit == 50
\* _search_tracks: if popularity < 15: continue
popularity_floor == 15
\* _collect_genre_tracks: max_attempts = len(genre_queries) * 3
attempt_multiplier == 3
\* _setup_collection_parameters, test mode
test_tracks_per_year == 2
test_target_per_genre == 10
\* _setup_collection_parameters, full mode
full_tracks_per_year == 400
full_target_per_genre == 2000

Min(a, b) == IF a < b THEN a ELSE b

\* __init__: self.genres
FixedGenres ==
    <<"pop", "rock", "hip-hop", "electronic", "jazz", "classical", "metal", "r&b">>

\* a variant that lists the years in ascending order
FixedYears_Ascending == <<2020, 2021, 2022, 2023, 2024>>

\* _setup_collection_parameters: self.years
FixedYears == <<2024, 2023, 2022, 2021, 2020>>

\* _setup_spotify_client: self.genre_categories
FixedGenreCategories ==
    [g \in {FixedGenres[i] : i \in 1..Len(FixedGenres)} |->
        CASE g = "pop" ->
               <<"genre:pop", "genre:dance-pop", "genre:synth-pop", "genre:electropop",
                 "genre:indie-pop", "genre:teen-pop", "genre:art-pop", "genre:dream-pop",
                 "genre:britpop", "genre:k-pop", "genre:j-pop">>
          [] g = "rock" ->
               <<"genre:rock", "genre:alternative-rock", "genre:indie-rock",
                 "genre:classic-rock", "genre:hard-rock", "genre:post-rock",
                 "genre:progressive-rock", "genre:psychedelic-rock",
                 "genre:garage-rock", "genre:punk-rock", "genre:folk-rock">>
          [] g = "hip-hop" ->
               <<"genre:hip-hop", "genre:rap", "genre:trap", "genre:old-school-hip-hop",
                 "genre:east-coast-hip-hop", "genre:west-coast-hip-hop",
                 "genre:southern-hip-hop", "genre:conscious-hip-hop",
                 "genre:gangsta-rap">>
          [] g = "electronic" ->
               <<"genre:electronic", "genre:techno", "genre:house", "genre:deep-house",
                 "genre:tech-house", "genre:progressive-house", "genre:electro-house",
                 "genre:trance", "genre:dubstep", "genre:drum-and-bass">>
          [] g = "jazz" ->
               <<"genre:jazz", "genre:smooth-jazz", "genre:jazz-fusion",
                 "genre:contemporary-jazz", "genre:bebop", "genre:hard-bop",
                 "genre:cool-jazz", "genre:free-jazz", "genre:latin-jazz",
                 "genre:swing">>
          [] g = "classical" ->
               <<"genre:classical", "genre:baroque", "genre:romantic",
                 "genre:contemporary-classical", "genre:classical-piano",
                 "genre:chamber-music", "genre:orchestral", "genre:opera">>
          [] g = "metal" ->
               <<"genre:metal", "genre:heavy-metal", "genre:death-metal",
                 "genre:black-metal", "genre:thrash-metal", "genre:power-metal",
                 "genre:progressive-metal", "genre:doom-metal", "genre:metalcore">>
          [] OTHER ->
               <<"genre:r&b", "genre:rnb", "genre:contemporary-r&b", "genre:neo-soul",
                 "genre:alternative-r&b", "genre:soul", "genre:funk", "genre:gospel">>]

\* The first n entries of a list (the whole list when it is shorter).
Prefix(s, n) == SubSeq(s, 1, Min(n, Len(s)))

(***************************************************************************)
(* Release dates are character strings; int(album_date[:4]) is modelled by *)
(* what it does on them.                                                   *)
(***************************************************************************)
Digits == {"0", "1", "2", "3", "4", "5", "6", "7", "8", "9"}

DigitVal(c) ==
    CASE c = "0" -> 0 [] c = "1" -> 1 [] c = "2" -> 2 [] c = "3" -> 3 [] c = "4" -> 4
      [] c = "5" -> 5 [] c = "6" -> 6 [] c = "7" -> 7 [] c = "8" -> 8 [] OTHER -> 9

\* album_date[:4]
First4(s) == Prefix(s, 4)

\* int(s) for a string of decimal digits; ok = FALSE is ValueError
RECURSIVE ParseInt(_)
ParseInt(s) ==
    IF Len(s) = 0 THEN [ok |-> FALSE, val |-> 0]
    ELSE IF \E i \in 1..Len(s) : s[i] \notin Digits THEN [ok |-> FALSE, val |-> 0]
    ELSE IF Len(s) = 1 THEN [ok |-> TRUE, val |-> DigitVal(s[1])]
    ELSE [ok |-> TRUE,
          val |-> 10 * ParseInt(SubSeq(s, 1, Len(s) - 1)).val + DigitVal(s[Len(s)])]

(***************************************************************************)
(* The items the upstream search API can return.  Each has the fields that *)
(* _search_tracks reads: name, artists (their names), album (with or       *)
(* without a release_date key), popularity.                                *)
(***************************************************************************)
Date2024 == <<"2", "0", "2", "4", "-", "0", "5", "-", "1", "0">>
Date2023 == <<"2", "0", "2", "3">>
DateUnparseable == <<"u", "n", "k", "n", "o", "w", "n">>
DateEmpty == <<>>

\* an album with a release_date key, and one without
Album(d) == [has_release_date |-> TRUE, release_date |-> d]
AlbumNoDate == [has_release_date |-> FALSE, release_date |-> <<>>]

Item(n, a, alb, p) == [name |-> n, artists |-> a, album |-> alb, popularity |-> p]

Catalog ==
    { Item("Alpha", <<"Ann">>, Album(Date2024), 15),
      \* the same title and artist on a release of another year
      Item("Alpha", <<"Ann">>, Album(Date2023), 60),
      Item("Bravo", <<"Ann">>, Album(Date2024), 80),
      \* no release date known
      Item("Charlie", <<"Cy">>, Album(DateEmpty), 40),
      Item("Delta", <<"Cy">>, Album(DateUnparseable), 40),
      \* album without a release_date key
      Item("Echo", <<"Cy">>, AlbumNoDate, 40),
      \* below the popularity floor
      Item("Foxtrot", <<"Cy">>, Album(Date2024), 14),
      \* no artist listed: track['artists'][0] raises IndexError
      Item("Golf", <<>>, Album(Date2024), 40) }

NoTrack == Item("", <<>>, AlbumNoDate, 0)
(***************************************************************************)
(* _search_tracks, the decisions taken for one item of a page.             *)
(***************************************************************************)
\* line 290: track['artists'][0]['name'] raises IndexError without artists
HasArtist(track) == Len(track.artists) >= 1

\* lines 293-295: any(t['track_name'] == track_name and
\*                    t['artist_name'] == artist_name for t in year_tracks)
IsDuplicate(track_name, artist_name, tracks) ==
    \E i \in 1..Len(tracks) :
        tracks[i].track_name = track_name /\ tracks[i].artist_name = artist_name

\* lines 298-305: "pass" lets the item through, "skip" is a continue
ReleaseYearCheck(track, target_year) ==
    IF ~track.album.has_release_date THEN "skip"            \* KeyError
    ELSE IF track.album.release_date = <<>> THEN "pass"     \* if album_date: is false
    ELSE LET parsed == ParseInt(First4(track.album.release_date))
         IN IF ~parsed.ok THEN "skip"                       \* ValueError
            ELSE IF parsed.val # target_year THEN "skip"
            ELSE "pass"

\* a variant that also rejects a popularity equal to the floor
PopularityOk_AboveFloor(popularity) == popularity > popularity_floor

\* lines 308-310: if popularity < 15: continue
PopularityOk(popularity) == ~(popularity < popularity_floor)

\* lines 319-330: the record appended for an accepted item
NewRecord(track, genre, target_year) ==
    [track_name |-> track.name,
     artist_name |-> track.artists[1],
     popularity |-> track.popularity,
     genre_category |-> genre,
     release_year |-> target_year]

\* lines 288-330: what the loop body does with one item
ItemOutcome(track, tracks, target_year) ==
    IF ~HasArtist(track) THEN "error"
    ELSE IF IsDuplicate(track.name, track.artists[1], tracks) THEN "skip"
    ELSE IF ReleaseYearCheck(track, target_year) = "skip" THEN "skip"
    ELSE IF ~PopularityOk(track.popularity) THEN "skip"
    ELSE "append"

\* a variant that forgets the records the accumulator held before the call
TracksFound_Total(tracks, before) == Len(tracks)

\* lines 342-343: tracks_found = len(year_tracks) - tracks_before
TracksFound(tracks, before) == Len(tracks) - before

(***************************************************************************)
(* collect_tracks and _collect_genre_tracks, the computed parameters.      *)
(***************************************************************************)
\* a variant that rounds the quotient up
PerYearTarget_RoundingUp(total, year_list) ==
    LET q == (total + Len(year_list) - 1) \div Len(year_list) IN IF q = 0 THEN 1 ELSE q

\* lines 107-109: tracks_per_year for a caller-supplied target_per_genre
PerYearTarget(total, year_list) ==
    LET q == total \div Len(year_list) IN IF q = 0 THEN 1 ELSE q

\* a variant that allows one attempt more
MaxAttempts_OneMore(genre_queries) == Len(genre_queries) * attempt_multiplier + 1

\* line 232: max_attempts = len(genre_queries) * 3
MaxAttempts(genre_queries) == Len(genre_queries) * attempt_multiplier

\* line 234: while len(year_tracks) < self.tracks_per_year and attempts < max_attempts
AttemptLoopContinues(tracks, target, tried, max_tries) ==
    Len(tracks) < target /\ tried < max_tries

\* a variant whose comparison is off by one
CohortFull_Strict(tracks, target) == Len(tracks) > target

\* lines 243 and 285: if len(year_tracks) >= self.tracks_per_year: break
CohortFull(tracks, target) == Len(tracks) >= target

\* a variant that still requests a page at the ceiling
PageLoopContinues_Inclusive(tracks, target, off) ==
    Len(tracks) < target /\ off <= max_offset

\* line 271: while len(year_tracks) < self.tracks_per_year and offset < max_offset
PageLoopContinues(tracks, target, off) == Len(tracks) < target /\ off < max_offset

\* a variant that raises when nothing was collected
RunResult_Raising(tracks) == IF tracks = <<>> THEN "raised" ELSE "dataset"

\* lines 142-161: what collect_tracks gives its caller after the last genre
RunResult(tracks) == IF tracks = <<>> THEN "none" ELSE "dataset"

\* a variant that never leaves the first query variant
PickQuery_AlwaysFirst(genre_queries, index) == genre_queries[1]

\* line 235: genre_queries[query_index % len(genre_queries)]
PickQuery(genre_queries, index) == genre_queries[(index % Len(genre_queries)) + 1]

\* lines 237-240: the two query strings of an attempt, "year:<y> <term>"
SearchQueries(year, query, genre) ==
    << [year |-> year, term |-> query],
       [year |-> year, term |-> "genre:" \o genre] >>
(***************************************************************************)
(* State.                                                                  *)
(***************************************************************************)
VARIABLES
    \* the collector object
    genres,             \* self.genres
    years,              \* self.years
    genre_categories,   \* self.genre_categories
    tracks_per_year,    \* self.tracks_per_year
    target_per_genre,   \* self.target_per_genre
    \* collect_tracks
    pc,                 \* the statement the program is at
    gi,                 \* position of "for genre in self.genres"
    all_tracks,
    result,             \* "running", then what collect_tracks gave its caller
    \* _collect_genre_tracks
    yi,                 \* position of "for year in self.years"
    all_genre_tracks,
    year_tracks,        \* the cohort of the cell being collected
    query_index,
    attempts,
    qi,                 \* position of "for search_query in search_queries"
    \* _search_tracks
    call,               \* the arguments search_query, genre, target_year
    tracks_before,
    offset,
    request,            \* the arguments of the sp.search call in flight
    page_len,           \* len(tracks) of the page being processed
    drawn,              \* how many of its items the upstream chose one by one
    ti,                 \* position of "for track in tracks"
    track,              \* the item the loop body last handled
    outcome,            \* what the loop body did with it
    tracks_found,       \* the value the last call returned
    \* the upstream, the file system and the history of the run
    api_budget,         \* items and errors the upstream will still serve
    checkpoint,         \* the checkpoint files on disk, by category
    resolved,           \* the cells resolved so far, in order, with their cohorts
    stop,               \* why the current call left its page loop
    last_offset,        \* offset of the previous request of the current call
    appended,           \* records the current call has appended
    err_tracks,         \* year_tracks when the current call caught its error
    last_io,            \* the last of the run's sp.search calls and time.sleep calls
    \* one pass of the loop body of _search_tracks, looked at on its own
    candidate,          \* the item the search API returned
    kept,               \* what the loop body did with it, and the dict it appended
    \* run_step_2 in recovery mode (main.py)
    temp_dirs,          \* the directories data/temp_collection_* and their files
    recovery,           \* how the recovery runs made so far have ended
    \* SpotifyDataCleaner
    df,                 \* self.df
    cleaned_df,         \* self.cleaned_df
    returned,           \* the datasets the clean_data calls made so far returned
    \* run_step_7 (main.py), TitleFeatureAnalyzer and ResultsInterpreter
    results,            \* self.results of the analyzer: the TestResult list
    test_results,       \* self.results of the interpreter: what it was built with
    interpretations,    \* self.interpretations of the interpreter
    business_insights   \* self.business_insights of the interpreter

config == <<genres, years, genre_categories>>
targets == <<tracks_per_year, target_per_genre>>
run_vars == <<gi, all_tracks, result>>
genre_vars == <<yi, all_genre_tracks, query_index, attempts, qi>>
search_vars == <<call, tracks_before, offset, request, page_len, drawn, ti, track,
                 outcome, tracks_found>>
history_vars == <<api_budget, checkpoint, resolved, stop, last_offset, appended,
                  err_tracks, last_io>>

\* the state of the parts of the program a collection run does not touch
item_vars == <<candidate, kept>>
recovery_vars == <<temp_dirs, recovery>>
cleaner_vars == <<df, cleaned_df, returned>>
tests_vars == <<results, test_results, interpretations, business_insights>>
other_vars == <<item_vars, recovery_vars, cleaner_vars, tests_vars>>

\* the state of the collector apart from the statement it is at
collector_vars ==
    <<genres, years, genre_categories, tracks_per_year, target_per_genre,
      gi, all_tracks, result, yi, all_genre_tracks, year_tracks,
      query_index, attempts, qi, call, tracks_before, offset, request,
      page_len, drawn, ti, track, outcome, tracks_found, api_budget, checkpoint,
      resolved, stop, last_offset, appended, err_tracks, last_io>>

vars == <<genres, years, genre_categories, tracks_per_year, target_per_genre,
          pc, gi, all_tracks, result, yi, all_genre_tracks, year_tracks,
          query_index, attempts, qi, call, tracks_before, offset, request,
          page_len, drawn, ti, track, outcome, tracks_found, api_budget, checkpoint,
          resolved, stop, last_offset, appended, err_tracks, last_io, other_vars>>

\* no item has been handed to the loop body on its own
NoCandidate == [name |-> <<>>, artists |-> <<>>, album |-> [has_release_date |-> FALSE, release_date |-> <<>>], popularity |-> 0, duration_ms |-> 0]
NoKept == [outcome |-> "none", tracks |-> <<>>]

\* no dataset: None
NoDataset == [category_column |-> "", rows |-> <<>>]

ItemIdle == candidate = NoCandidate /\ kept = NoKept
RecoveryIdle == temp_dirs = <<>> /\ recovery = <<>>
CleanerIdle == df = NoDataset /\ cleaned_df = NoDataset /\ returned = <<>>

\* an entry of the dict an interpreter can be built with, and no entry
Entry(statistic, p_value) ==
    [present |-> TRUE, statistic |-> statistic, p_value |-> p_value]
NoEntry == [present |-> FALSE, statistic |-> 0, p_value |-> 0]

\* no interpreter has been built
NoTestResults ==
    [kind |-> "none", items |-> <<>>, title_length_correlation |-> NoEntry,
     word_count_groups |-> NoEntry, title_features_anova |-> NoEntry]

TestsIdle ==
    /\ results = <<>>
    /\ test_results = NoTestResults
    /\ interpretations = <<>>
    /\ business_insights = <<>>

OthersIdle == ItemIdle /\ RecoveryIdle /\ CleanerIdle /\ TestsIdle

NoCall == [search_query |-> [year |-> 0, term |-> ""], genre |-> "", target_year |-> 0]
NoRequest == [q |-> [year |-> 0, term |-> ""], type |-> "", limit |-> 0, offset |-> 0]

\* the genre and the year of the cell being collected
Genre == genres[gi]
Year == years[yi]

(***************************************************************************)
(* Init: the collector as __init__ leaves it (test mode or full mode),     *)
(* before collect_tracks is called.                                        *)
(***************************************************************************)
ConstructedWith(test_mode) ==
    /\ genres = Prefix(FixedGenres, NumGenres)
    /\ years = Prefix(FixedYears, NumYears)
    /\ genre_categories =
         [g \in {FixedGenres[i] : i \in 1..Len(FixedGenres)} |->
             Prefix(FixedGenreCategories[g], NumVariants)]
    /\ tracks_per_year = IF test_mode THEN test_tracks_per_year ELSE full_tracks_per_year
    /\ target_per_genre = IF test_mode THEN test_target_per_genre ELSE full_target_per_genre

IdleLocals ==
    /\ gi = 0 /\ yi = 0
    /\ all_tracks = <<>> /\ all_genre_tracks = <<>> /\ year_tracks = <<>>
    /\ result = "running"
    /\ query_index = 0 /\ attempts = 0 /\ qi = 0
    /\ call = NoCall /\ tracks_before = 0 /\ offset = 0 /\ request = NoRequest
    /\ page_len = 0 /\ drawn = 0 /\ ti = 0 /\ track = NoTrack /\ outcome = "none"
    /\ tracks_found = 0
    /\ checkpoint = [g \in {FixedGenres[i] : i \in 1..Len(FixedGenres)} |-> <<>>]
    /\ resolved = <<>>
    /\ stop = "none" /\ last_offset = -1 /\ appended = 0 /\ err_tracks = <<>>
    /\ last_io = "none"

Init ==
    /\ \E test_mode \in BOOLEAN : ConstructedWith(test_mode)
    /\ pc = "idle"
    /\ api_budget = RunBudget
    /\ IdleLocals
    /\ OthersIdle

(***************************************************************************)
(* collect_tracks                                                          *)
(***************************************************************************)
\* what a caller can pass as target_per_genre: None, or a total
TargetArgs ==
    {[given |-> FALSE, value |-> 0]} \cup {[given |-> TRUE, value |-> t] : t \in 1..MaxTotal}

\* lines 103-118: the override of the targets, then the loop starts
CollectTracks ==
    /\ pc = "idle"
    /\ \E arg \in TargetArgs :
          IF arg.given
          THEN /\ target_per_genre' = arg.value
               /\ tracks_per_year' = PerYearTarget(arg.value, years)
          ELSE UNCHANGED targets
    /\ all_tracks' = <<>>
    /\ gi' = 1
    /\ pc' = "genres"
    /\ UNCHANGED <<config, other_vars, result, genre_vars, year_tracks, search_vars, history_vars>>

\* lines 121-123: the next genre; _collect_genre_tracks starts (lines 219-220)
NextGenre ==
    /\ pc = "genres"
    /\ gi <= Len(genres)
    /\ all_genre_tracks' = <<>>
    /\ yi' = 1
    /\ pc' = "years"
    /\ UNCHANGED <<config, other_vars, targets, gi, all_tracks, result, year_tracks, query_index,
                   attempts, qi, search_vars, history_vars>>

\* lines 142-165: after the last genre, None or the dataset goes to the caller
FinishRun ==
    /\ pc = "genres"
    /\ gi > Len(genres)
    /\ result' = RunResult(all_tracks)
    /\ pc' = "done"
    /\ UNCHANGED <<config, other_vars, targets, gi, all_tracks, genre_vars, year_tracks, search_vars,
                   history_vars>>

(***************************************************************************)
(* _collect_genre_tracks                                                   *)
(***************************************************************************)
\* lines 226-232: the next year of the genre; a new cell starts
NextYear ==
    /\ pc = "years"
    /\ yi <= Len(years)
    /\ year_tracks' = <<>>
    /\ query_index' = 0
    /\ attempts' = 0
    /\ pc' = "attempt"
    /\ UNCHANGED <<config, other_vars, targets, gi, all_tracks, result, yi, all_genre_tracks, qi,
                   search_vars, history_vars>>

\* a variant that puts the genre's tracks in front of the earlier ones
ReturnGenre_Prepending ==
    /\ pc = "years"
    /\ yi > Len(years)
    /\ all_tracks' = all_genre_tracks \o all_tracks
    /\ all_genre_tracks' = <<>>
    /\ gi' = gi + 1
    /\ yi' = 0
    /\ pc' = "genres"
    /\ UNCHANGED <<config, other_vars, targets, result, year_tracks, query_index, attempts, qi,
                   search_vars, history_vars>>

\* lines 259-260 and 125-127: the genre's tracks return to collect_tracks
ReturnGenre ==
    /\ pc = "years"
    /\ yi > Len(years)
    /\ all_tracks' = all_tracks \o all_genre_tracks
    /\ all_genre_tracks' = <<>>
    /\ gi' = gi + 1
    /\ yi' = 0
    /\ pc' = "genres"
    /\ UNCHANGED <<config, other_vars, targets, result, year_tracks, query_index, attempts, qi,
                   search_vars, history_vars>>

\* lines 234-240: the while condition holds, an attempt starts
StartAttempt ==
    /\ pc = "attempt"
    /\ AttemptLoopContinues(year_tracks, tracks_per_year, attempts,
                            MaxAttempts(genre_categories[Genre]))
    /\ qi' = 1
    /\ pc' = "queries"
    /\ UNCHANGED <<config, other_vars, targets, run_vars, yi, all_genre_tracks, year_tracks,
                   query_index, attempts, search_vars, history_vars>>

\* line 234: the while condition fails, the cell is resolved (line 256)
CellDone ==
    /\ pc = "attempt"
    /\ ~AttemptLoopContinues(year_tracks, tracks_per_year, attempts,
                             MaxAttempts(genre_categories[Genre]))
    /\ pc' = "cell_done"
    /\ resolved' = Append(resolved,
                          [genre |-> Genre, year |-> Year, cohort |-> year_tracks])
    /\ UNCHANGED <<config, other_vars, targets, gi, all_tracks, result, genre_vars, year_tracks,
                   search_vars, api_budget, checkpoint, stop, last_offset, appended,
                   err_tracks, last_io>>

\* a variant that keeps a cohort only when it reached the target
ExtendGenreTracks_DropShort ==
    /\ pc = "cell_done"
    /\ all_genre_tracks' = IF Len(year_tracks) < tracks_per_year
                           THEN all_genre_tracks
                           ELSE all_genre_tracks \o year_tracks
    /\ yi' = yi + 1
    /\ pc' = "years"
    /\ UNCHANGED <<config, other_vars, targets, gi, all_tracks, result, year_tracks, query_index,
                   attempts, qi, search_vars, history_vars>>

\* line 257: the cohort joins the genre's tracks, then the next year
ExtendGenreTracks ==
    /\ pc = "cell_done"
    /\ all_genre_tracks' = all_genre_tracks \o year_tracks
    /\ yi' = yi + 1
    /\ pc' = "years"
    /\ UNCHANGED <<config, other_vars, targets, gi, all_tracks, result, year_tracks, query_index,
                   attempts, qi, search_vars, history_vars>>

\* lines 242-248: the next query string of the attempt goes to _search_tracks
\* (lines 265-269: its locals)
CallSearch ==
    /\ pc = "queries"
    /\ qi <= 2
    /\ ~CohortFull(year_tracks, tracks_per_year)
    /\ call' = [search_query |->
                    SearchQueries(Year, PickQuery(genre_categories[Genre], query_index),
                                  Genre)[qi],
                genre |-> Genre,
                target_year |-> Year]
    /\ tracks_before' = Len(year_tracks)
    /\ offset' = 0
    /\ stop' = "none"
    /\ last_offset' = -1
    /\ appended' = 0
    /\ err_tracks' = <<>>
    /\ pc' = "page"
    /\ UNCHANGED <<config, other_vars, targets, run_vars, genre_vars, year_tracks, request, page_len,
                   drawn, ti, track, outcome, tracks_found, api_budget, checkpoint,
                   resolved, last_io>>

\* lines 243-244 and 253-254: the cohort is full (break) or both query strings
\* are used; the attempt ends
EndAttempt ==
    /\ pc = "queries"
    /\ qi > 2 \/ CohortFull(year_tracks, tracks_per_year)
    /\ query_index' = query_index + 1
    /\ attempts' = attempts + 1
    /\ pc' = "attempt"
    /\ UNCHANGED <<config, other_vars, targets, run_vars, yi, all_genre_tracks, year_tracks, qi,
                   search_vars, history_vars>>

(***************************************************************************)
(* _search_tracks                                                          *)
(***************************************************************************)
\* lines 271-278: the while condition holds, a page is requested
SendRequest ==
    /\ pc = "page"
    /\ PageLoopContinues(year_tracks, tracks_per_year, offset)
    /\ request' = [q |-> call.search_query, type |-> "track", limit |-> page_limit,
                   offset |-> offset]
    /\ last_io' = "request"
    /\ pc' = "await"
    /\ UNCHANGED <<config, other_vars, targets, run_vars, genre_vars, year_tracks, call,
                   tracks_before, offset, page_len, drawn, ti, track, outcome,
                   tracks_found, api_budget, checkpoint, resolved, stop, last_offset,
                   appended, err_tracks>>

\* line 271: the while condition fails
LeaveLoop ==
    /\ pc = "page"
    /\ ~PageLoopContinues(year_tracks, tracks_per_year, offset)
    /\ pc' = "ret"
    /\ UNCHANGED <<config, other_vars, targets, gi, all_tracks, result, genre_vars, year_tracks,
                   search_vars, history_vars>>

\* lines 273 and 335-337: the request raises; the error is printed and the
\* page loop is left
RespondError ==
    /\ pc = "await"
    /\ api_budget > 0
    /\ api_budget' = api_budget - 1
    /\ stop' = "error"
    /\ err_tracks' = year_tracks
    /\ last_offset' = request.offset
    /\ pc' = "ret"
    /\ UNCHANGED <<config, other_vars, targets, gi, all_tracks, result, genre_vars, year_tracks,
                   search_vars, checkpoint, resolved, appended, last_io>>

\* lines 280-282: the page is empty; the page loop is left
RespondEmpty ==
    /\ pc = "await"
    /\ stop' = "empty"
    /\ last_offset' = request.offset
    /\ pc' = "ret"
    /\ UNCHANGED <<config, other_vars, targets, gi, all_tracks, result, genre_vars, year_tracks,
                   search_vars, api_budget, checkpoint, resolved, appended, err_tracks,
                   last_io>>

\* line 280: a page of items arrives.  The upstream chooses its first d items
\* one by one; a page longer than d goes on repeating the last of them, which
\* the loop body skips as it did before (a rejected item) or as a duplicate
\* (an accepted one).
RespondPage ==
    /\ pc = "await"
    /\ api_budget > 0
    /\ \E d \in 1..Min(api_budget, MaxPageLen) :
          /\ drawn' = d
          /\ api_budget' = api_budget - d
          /\ \E n \in {d, page_limit} : n >= d /\ page_len' = n
    /\ ti' = 0
    /\ last_offset' = request.offset
    /\ pc' = "items"
    /\ UNCHANGED <<config, other_vars, targets, gi, all_tracks, result, genre_vars, year_tracks,
                   call, tracks_before, offset, request, track, outcome, tracks_found,
                   checkpoint, resolved, stop, appended, err_tracks, last_io>>

\* lines 284-330: the loop body handles the next item of the page
ProcessItem ==
    /\ pc = "items"
    /\ ti < drawn
    /\ ~CohortFull(year_tracks, tracks_per_year)
    /\ \E item \in Catalog :
          LET what == ItemOutcome(item, year_tracks, call.target_year) IN
          /\ track' = item
          /\ outcome' = what
          /\ year_tracks' = IF what = "append"
                            THEN Append(year_tracks,
                                        NewRecord(item, call.genre, call.target_year))
                            ELSE year_tracks
          /\ appended' = IF what = "append" THEN appended + 1 ELSE appended
          /\ IF what = "error"
             THEN \* lines 335-337: the exception ends the page loop
                  /\ stop' = "error"
                  /\ err_tracks' = year_tracks
                  /\ ti' = ti
                  /\ pc' = "ret"
             ELSE /\ ti' = ti + 1
                  /\ UNCHANGED <<stop, err_tracks, pc>>
    /\ UNCHANGED <<config, other_vars, targets, gi, all_tracks, result, genre_vars, call,
                   tracks_before, offset, request, page_len, drawn, tracks_found,
                   api_budget, checkpoint, resolved, last_offset, last_io>>

\* a variant that counts the page against the collector's per-year target
EndPage_LoweringTarget ==
    /\ pc = "items"
    /\ ti >= drawn \/ CohortFull(year_tracks, tracks_per_year)
    /\ offset' = offset + page_len
    /\ tracks_per_year' = tracks_per_year - 1
    /\ track' = NoTrack
    /\ outcome' = "none"
    /\ page_len' = 0
    /\ drawn' = 0
    /\ ti' = 0
    /\ last_io' = "sleep"
    /\ pc' = "page"
    /\ UNCHANGED <<config, other_vars, target_per_genre, gi, all_tracks, result, genre_vars,
                   year_tracks, call, tracks_before, request, tracks_found, api_budget,
                   checkpoint, resolved, stop, last_offset, appended, err_tracks>>

\* lines 285-286 and 332-333: the page is done (or the cohort is full, break);
\* the offset advances and the call sleeps
EndPage ==
    /\ pc = "items"
    /\ ti >= drawn \/ CohortFull(year_tracks, tracks_per_year)
    /\ offset' = offset + page_len
    /\ track' = NoTrack
    /\ outcome' = "none"
    /\ page_len' = 0
    /\ drawn' = 0
    /\ ti' = 0
    /\ last_io' = "sleep"
    /\ pc' = "page"
    /\ UNCHANGED <<config, other_vars, targets, gi, all_tracks, result, genre_vars, year_tracks,
                   call, tracks_before, request, tracks_found, api_budget, checkpoint,
                   resolved, stop, last_offset, appended, err_tracks>>

\* lines 342-343: the call returns how many tracks it added; the caller goes
\* to its next query string (lines 242, 250)
SearchReturn ==
    /\ pc = "ret"
    /\ tracks_found' = TracksFound(year_tracks, tracks_before)
    /\ track' = NoTrack
    /\ outcome' = "none"
    /\ page_len' = 0
    /\ drawn' = 0
    /\ ti' = 0
    /\ qi' = qi + 1
    /\ pc' = "queries"
    /\ UNCHANGED <<config, other_vars, targets, gi, all_tracks, result, yi, all_genre_tracks,
                   year_tracks, query_index, attempts, call, tracks_before, offset,
                   request, history_vars>>

SearchNext ==
    \/ CallSearch \/ SendRequest \/ LeaveLoop
    \/ RespondError \/ RespondEmpty \/ RespondPage
    \/ ProcessItem \/ EndPage \/ SearchReturn

Next ==
    \/ CollectTracks \/ NextGenre \/ FinishRun
    \/ NextYear \/ ReturnGenre
    \/ StartAttempt \/ CellDone \/ ExtendGenreTracks \/ EndAttempt
    \/ SearchNext

Spec == Init /\ [][Next]_vars

(***************************************************************************)
(* A search call on its own: in the first attempt of the first cell, the   *)
(* call for the first query string has come back from an empty page, its   *)
(* first or, after a page of one accepted item, its second, and the        *)
(* collector stands before the call for the second query string.  The      *)
(* upstream serves up to CallBudget items and errors, and only             *)
(* _search_tracks and its call site take steps.                            *)
(***************************************************************************)
SearchInit ==
    /\ \E test_mode \in BOOLEAN, arg \in TargetArgs :
          /\ genres = Prefix(FixedGenres, NumGenres)
          /\ years = Prefix(FixedYears, NumYears)
          /\ genre_categories =
               [g \in {FixedGenres[i] : i \in 1..Len(FixedGenres)} |->
                   Prefix(FixedGenreCategories[g], NumVariants)]
          /\ target_per_genre =
               IF arg.given THEN arg.value
               ELSE IF test_mode THEN test_target_per_genre ELSE full_target_per_genre
          /\ tracks_per_year =
               IF arg.given THEN PerYearTarget(arg.value, years)
               ELSE IF test_mode THEN test_tracks_per_year ELSE full_tracks_per_year
    /\ pc = "queries"
    /\ api_budget = CallBudget
    /\ gi = 1 /\ yi = 1 /\ qi = 2
    /\ all_tracks = <<>> /\ all_genre_tracks = <<>>
    /\ result = "running"
    /\ query_index = 0 /\ attempts = 0
    /\ \E first \in 0..1 :
          /\ first < tracks_per_year
          /\ year_tracks =
               IF first = 0 THEN <<>>
               ELSE <<NewRecord(Item("Bravo", <<"Ann">>, Album(Date2024), 80),
                                FixedGenres[1], FixedYears[1])>>
          /\ offset = first /\ last_offset = first
          /\ appended = first /\ tracks_found = first
    /\ call = [search_query |->
                   SearchQueries(FixedYears[1], PickQuery(genre_categories[FixedGenres[1]], 0),
                                 FixedGenres[1])[1],
               genre |-> FixedGenres[1],
               target_year |-> FixedYears[1]]
    /\ request = [q |-> call.search_query, type |-> "track", limit |-> page_limit,
                  offset |-> offset]
    /\ tracks_before = 0
    /\ page_len = 0 /\ drawn = 0 /\ ti = 0 /\ track = NoTrack /\ outcome = "none"
    /\ checkpoint = [g \in {FixedGenres[i] : i \in 1..Len(FixedGenres)} |-> <<>>]
    /\ resolved = <<>>
    /\ stop = "empty" /\ err_tracks = <<>>
    /\ last_io = "request"
    /\ OthersIdle

SpecSearch == SearchInit /\ [][SearchNext]_vars

(***************************************************************************)
(* A cell on its own: the collector with all its genres, years and query   *)
(* variants stands at the while loop of the first year of one of its       *)
(* genres, and only the attempts of that cell and their search calls take  *)
(* steps.  The upstream serves up to CellBudget items and errors.          *)
(***************************************************************************)
CellBudget == 1

CellInit ==
    /\ genres = FixedGenres
    /\ years = FixedYears
    /\ genre_categories = FixedGenreCategories
    /\ \E test_mode \in BOOLEAN, arg \in TargetArgs :
          /\ target_per_genre =
               IF arg.given THEN arg.value
               ELSE IF test_mode THEN test_target_per_genre ELSE full_target_per_genre
          /\ tracks_per_year =
               IF arg.given THEN PerYearTarget(arg.value, years)
               ELSE IF test_mode THEN test_tracks_per_year ELSE full_tracks_per_year
    /\ pc = "attempt"
    /\ api_budget = CellBudget
    /\ gi \in 1..Len(FixedGenres)
    /\ yi = 1
    /\ all_tracks = <<>> /\ all_genre_tracks = <<>> /\ year_tracks = <<>>
    /\ result = "running"
    /\ query_index = 0 /\ attempts = 0 /\ qi = 0
    /\ call = NoCall /\ tracks_before = 0 /\ offset = 0 /\ request = NoRequest
    /\ page_len = 0 /\ drawn = 0 /\ ti = 0 /\ track = NoTrack /\ outcome = "none"
    /\ tracks_found = 0
    /\ checkpoint = [g \in {FixedGenres[i] : i \in 1..Len(FixedGenres)} |-> <<>>]
    /\ resolved = <<>>
    /\ stop = "none" /\ last_offset = -1 /\ appended = 0 /\ err_tracks = <<>>
    /\ last_io = "none"
    /\ OthersIdle

CellNext == StartAttempt \/ CellDone \/ EndAttempt \/ SearchNext

SpecCell == CellInit /\ [][CellNext]_vars

(***************************************************************************)
(* The targets of a run on their own: the collector as __init__ leaves it, *)
(* with all its genres and years, and the first statements of              *)
(* collect_tracks for any integer a caller can pass as target_per_genre.   *)
(***************************************************************************)
TargetInit ==
    /\ genres = FixedGenres
    /\ years = FixedYears
    /\ genre_categories = FixedGenreCategories
    /\ \E test_mode \in BOOLEAN :
          /\ tracks_per_year =
               IF test_mode THEN test_tracks_per_year ELSE full_tracks_per_year
          /\ target_per_genre =
               IF test_mode THEN test_target_per_genre ELSE full_target_per_genre
    /\ pc = "idle"
    /\ api_budget = 0
    /\ IdleLocals
    /\ OthersIdle

\* lines 103-118: the override of the targets by a caller-supplied total
CollectTracksWithTotal ==
    /\ pc = "idle"
    /\ \E total \in (-MaxArg)..MaxArg :
          /\ target_per_genre' = total
          /\ tracks_per_year' = PerYearTarget(total, years)
    /\ all_tracks' = <<>>
    /\ gi' = 1
    /\ pc' = "genres"
    /\ UNCHANGED <<config, other_vars, result, genre_vars, year_tracks, search_vars,
                   history_vars>>

\* lines 73-84: the targets of the four collection sizes
CollectionSizes ==
    [test |-> [tracks_per_year |-> 20, target_per_genre |-> 100],
     medium |-> [tracks_per_year |-> 50, target_per_genre |-> 250],
     full |-> [tracks_per_year |-> 800, target_per_genre |-> 4000],
     mega |-> [tracks_per_year |-> 1200, target_per_genre |-> 6000]]

\* set_collection_size, with one of the sizes run_step_2 passes
SetCollectionSize ==
    /\ pc = "idle"
    /\ \E size \in DOMAIN CollectionSizes :
          /\ tracks_per_year' = CollectionSizes[size].tracks_per_year
          /\ target_per_genre' = CollectionSizes[size].target_per_genre
    /\ UNCHANGED <<pc, config, other_vars, run_vars, genre_vars, year_tracks, search_vars,
                   history_vars>>

TargetNext == SetCollectionSize \/ CollectTracksWithTotal

SpecTarget == TargetInit /\ [][TargetNext]_vars

(***************************************************************************)
(* The loop body of _search_tracks on one item: the search API returns an  *)
(* item with any title and popularity, released in the target year, and    *)
(* the body handles it for an empty cohort.  Titles are sequences of       *)
(* characters; a character is classified as Python's str methods do.       *)
(***************************************************************************)
\* letters: str.isalpha
Letters ==
    {"a", "b", "c", "d", "e", "f", "g", "h", "i", "j", "k", "l", "m", "n", "o", "p", "q", "r", "s", "t", "u", "v", "w", "x", "y", "z",
     "A", "B", "C", "D", "E", "F", "G", "H", "I", "J", "K", "L", "M", "N", "O", "P", "Q", "R", "S", "T", "U", "V", "W", "X", "Y", "Z"}

\* characters str.isdigit accepts and str.isdecimal does not; "sup2" stands
\* for SUPERSCRIPT TWO
OtherDigits == {"sup2"}

\* a variant that accepts decimal digits only (str.isdecimal)
IsDigit_DecimalOnly(c) == c \in Digits

\* line 315: c.isdigit()
IsDigit(c) == c \in Digits \cup OtherDigits

\* line 316: c.isalnum()
IsAlnum(c) == c \in Letters \cup Digits \cup OtherDigits

\* line 316: c.isspace()
IsSpace(c) == c \in {" ", "\t"}

\* a variant that splits at every single space, as track_name.split(' ') does
Split_AtEverySpace(s) == [i \in 1..(Cardinality({k \in 1..Len(s) : s[k] = " "}) + 1) |-> <<>>]

\* line 314: track_name.split(): the runs of characters between whitespace
RECURSIVE SplitWords(_, _, _)
SplitWords(s, i, word) ==
    IF i > Len(s)
    THEN IF word = <<>> THEN <<>> ELSE <<word>>
    ELSE IF IsSpace(s[i])
         THEN IF word = <<>>
              THEN SplitWords(s, i + 1, <<>>)
              ELSE <<word>> \o SplitWords(s, i + 1, <<>>)
         ELSE SplitWords(s, i + 1, Append(word, s[i]))

Split(s) == SplitWords(s, 1, <<>>)

\* lines 313-316: the title features
TitleFeatures(track_name) ==
    [title_length |-> Len(track_name),
     word_count |-> Len(Split(track_name)),
     has_numbers |-> \E i \in 1..Len(track_name) : IsDigit(track_name[i]),
     has_special_chars |->
         \E i \in 1..Len(track_name) :
             ~IsAlnum(track_name[i]) /\ ~IsSpace(track_name[i])]

\* lines 319-330: the dict appended to year_tracks, with all its keys
TrackRecord(item, genre, target_year) ==
    LET features == TitleFeatures(item.name) IN
    [track_name |-> item.name,
     artist_name |-> item.artists[1],
     popularity |-> item.popularity,
     duration_ms |-> item.duration_ms,
     title_length |-> features.title_length,
     word_count |-> features.word_count,
     has_numbers |-> features.has_numbers,
     has_special_chars |-> features.has_special_chars,
     genre_category |-> genre,
     release_year |-> target_year]

\* the titles of the items
LostInTranslation == <<"L", "o", "s", "t", " ", "I", "n", " ", "T", "r", "a", "n", "s", "l", "a", "t", "i", "o", "n">>
NinetyNineProblems == <<"9", "9", " ", "P", "r", "o", "b", "l", "e", "m", "s">>
RockAndRoll == <<"R", "o", "c", "k", " ", "&", " ", "R", "o", "l", "l">>

TitleChars == {"a", "7", " ", "&", "sup2"}

Titles ==
    UNION {[1..n -> TitleChars] : n \in 0..MaxTitleLen}
        \cup {LostInTranslation, NinetyNineProblems, RockAndRoll}

\* the popularities of the items
Popularities == {0, 14, 15, 100, 150}

Candidates ==
    {[name |-> t, artists |-> <<"Ann">>, album |-> Album(Date2024), popularity |-> p,
      duration_ms |-> 200000] : t \in Titles, p \in Popularities}

ItemInit ==
    /\ ConstructedWith(TRUE)
    /\ api_budget = 0
    /\ IdleLocals
    /\ pc = "candidate"
    /\ candidate \in Candidates
    /\ kept = NoKept
    /\ RecoveryIdle
    /\ CleanerIdle
    /\ TestsIdle

\* lines 284-330: the loop body handles the item; year_tracks is empty and
\* the call is for the first genre and the first year
HandleCandidate ==
    /\ pc = "candidate"
    /\ LET what == ItemOutcome(candidate, <<>>, FixedYears[1]) IN
       kept' = [outcome |-> what,
                tracks |-> IF what = "append"
                           THEN <<TrackRecord(candidate, FixedGenres[1], FixedYears[1])>>
                           ELSE <<>>]
    /\ pc' = "handled"
    /\ UNCHANGED <<collector_vars, candidate, recovery_vars, cleaner_vars, tests_vars>>

SpecItem == ItemInit /\ [][HandleCandidate]_vars

\* SpotifyDataValidator.validate_dataset (main.py, line 91):
\* expect_column_values_to_be_between("popularity", 20, 100)
validator_popularity_range == <<20, 100>>

ExpectedPopularity(popularity) ==
    /\ validator_popularity_range[1] <= popularity
    /\ popularity <= validator_popularity_range[2]

(***************************************************************************)
(* run_step_2 in recovery mode (main.py, mode "5"): the directories        *)
(* data/temp_collection_* are listed, the user picks one by number, and    *)
(* recover_partial_collection is called on a new OptimisedTitleCollector.  *)
(* The class has no method of that name, so the call raises                *)
(* AttributeError; the handler of line 218 catches ValueError and          *)
(* IndexError only and main() catches nothing, so the exception ends the   *)
(* program before anything is read, written or deleted.  The history       *)
(* `recovery` runs over restarts of the program on the same data/.         *)
(***************************************************************************)
MaxDirs == 2
MaxFiles == 2
MaxFileRows == 1
MaxRuns == 2

\* the (track_name, artist_name) keys of the rows of the batch files
FileKeys == {<<"Alpha", "Ann">>, <<"Bravo", "Bob">>}

RECURSIVE SeqsUpTo(_, _)
SeqsUpTo(S, n) ==
    IF n = 0 THEN {<<>>}
    ELSE LET shorter == SeqsUpTo(S, n - 1)
         IN shorter \cup {Append(q, x) : q \in {r \in shorter : Len(r) = n - 1}, x \in S}

\* a *.csv file of a temporary directory: readable or not, and its rows
BatchFiles ==
    {[readable |-> TRUE, rows |-> rows] : rows \in SeqsUpTo(FileKeys, MaxFileRows)}
        \cup {[readable |-> FALSE, rows |-> <<>>]}

TempDirs == SeqsUpTo(BatchFiles, MaxFiles)

\* what the user types at "Select a partial collection to recover (number)"
SelectionInputs ==
    {[numeric |-> FALSE, number |-> 0]}
        \cup {[numeric |-> TRUE, number |-> n] : n \in (-1)..(MaxDirs + 1)}

\* temp_dirs[choice] of a Python list: the position counted from 1, or 0
\* where the index is out of range (IndexError)
ListIndex(length, choice) ==
    IF choice >= 0 /\ choice < length THEN choice + 1
    ELSE IF choice < 0 /\ choice >= -length THEN length + choice + 1
    ELSE 0

RecoveryOutcome(dirs, text) ==
    IF dirs = <<>>
    THEN [kind |-> "none_found", selected |-> 0, rows |-> <<>>]
    ELSE IF ~text.numeric
    THEN [kind |-> "invalid_selection", selected |-> 0, rows |-> <<>>]
    ELSE LET choice == text.number - 1
             selected == ListIndex(Len(dirs), choice)
         IN IF selected = 0
            THEN [kind |-> "invalid_selection", selected |-> 0, rows |-> <<>>]
            ELSE [kind |-> "attribute_error", selected |-> selected, rows |-> <<>>]

RecoveryInit ==
    /\ ConstructedWith(FALSE)
    /\ api_budget = 0
    /\ IdleLocals
    /\ pc = "menu"
    /\ temp_dirs \in SeqsUpTo(TempDirs, MaxDirs)
    /\ recovery = <<>>
    /\ ItemIdle
    /\ CleanerIdle
    /\ TestsIdle

RunStep2Recovery ==
    /\ pc = "menu"
    /\ Len(recovery) < MaxRuns
    /\ \E text \in SelectionInputs :
          recovery' = Append(recovery, RecoveryOutcome(temp_dirs, text))
    /\ UNCHANGED <<pc, collector_vars, item_vars, temp_dirs, cleaner_vars, tests_vars>>

SpecRecovery == RecoveryInit /\ [][RunStep2Recovery]_vars

(***************************************************************************)
(* SpotifyDataCleaner (data_cleaner.py).  A dataset is the name of its     *)
(* category column and its rows.  A numeric cell is a number, NaN, a       *)
(* string that parses as a number or a string that does not; a string or   *)
(* flag cell is its value or NA.  clean_data runs the six steps in the     *)
(* order of lines 40-55, one action each.                                  *)
(***************************************************************************)
MaxRows == 2
MaxCleanings == 2

NA == "<NA>"
NoColumn == "-"

Num(n) == [kind |-> "num", value |-> n]
NaN == [kind |-> "nan", value |-> 0]
NumericText(n) == [kind |-> "numeric_text", value |-> n]
OtherText == [kind |-> "text", value |-> 0]

\* isnull of a string or flag cell, and of a numeric cell
IsNull(cell) == cell = NA
IsNullNumber(cell) == cell.kind = "nan"

\* line 77
key_cols == <<"track_name", "artist_name", "popularity", "duration_ms", "genre">>

HasKeyColumns(frame) ==
    \A k \in 1..Len(key_cols) :
        key_cols[k] \in {"track_name", "artist_name", "popularity", "duration_ms",
                         frame.category_column}

\* dropna(subset=key_cols), line 78
KeyValuesPresent(row) ==
    /\ ~IsNull(row.track_name)
    /\ ~IsNull(row.artist_name)
    /\ ~IsNullNumber(row.popularity)
    /\ ~IsNullNumber(row.duration_ms)
    /\ ~IsNull(row.category)

FillNa(cell, value) == IF IsNull(cell) THEN value ELSE cell
FillNaNumber(cell, value) == IF IsNullNumber(cell) THEN value ELSE cell

\* lines 81-88
FillDerived(row) ==
    [row EXCEPT !.title_length = FillNaNumber(@, Num(0)),
                !.word_count = FillNaNumber(@, Num(0)),
                !.has_numbers = FillNa(@, "False"),
                !.has_special_chars = FillNa(@, "False")]

\* drop_duplicates(subset=['track_name', 'artist_name']), line 96
RECURSIVE DropDuplicates(_, _)
DropDuplicates(rows, seen) ==
    IF rows = <<>> THEN <<>>
    ELSE LET key == <<Head(rows).track_name, Head(rows).artist_name>>
         IN IF key \in seen THEN DropDuplicates(Tail(rows), seen)
            ELSE <<Head(rows)>> \o DropDuplicates(Tail(rows), seen \cup {key})

\* pd.to_numeric(..., errors='coerce'), line 110
ToNumeric(cell) ==
    IF cell.kind \in {"num", "numeric_text"} THEN Num(cell.value) ELSE NaN

\* lines 107-116; the flags are True or False after line 86-88
CoerceTypes(row) ==
    [row EXCEPT !.popularity = ToNumeric(@),
                !.duration_ms = ToNumeric(@),
                !.title_length = ToNumeric(@),
                !.word_count = ToNumeric(@)]

\* line 124-129
popularity_range == <<0, 100>>
duration_ms_range == <<0, 3600000>>
title_length_range == <<0, 200>>
word_count_range == <<0, 50>>

\* Series.clip(min_val, max_val), line 139: NaN stays NaN
Clip(cell, range) ==
    IF cell.kind # "num" THEN cell
    ELSE IF cell.value < range[1] THEN Num(range[1])
    ELSE IF cell.value > range[2] THEN Num(range[2])
    ELSE cell

ClipRow(row) ==
    [row EXCEPT !.popularity = Clip(@, popularity_range),
                !.duration_ms = Clip(@, duration_ms_range),
                !.title_length = Clip(@, title_length_range),
                !.word_count = Clip(@, word_count_range)]

\* lines 151-152, 158-159, 165-166; where there is one edge per label the
\* last bin ends at float('inf')
title_length_bins == <<0, 20, 40, 60>>
title_length_labels ==
    <<"Very Short (0-20)", "Short (21-40)", "Medium (41-60)", "Long (60+)">>
word_count_bins == <<0, 2, 4>>
word_count_labels == <<"Short (1-2 words)", "Medium (3-4 words)", "Long (5+ words)">>
popularity_bins == <<0, 20, 40, 60, 80, 100>>
popularity_labels ==
    <<"Very Low (0-20)", "Low (21-40)", "Medium (41-60)", "High (61-80)",
      "Very High (81-100)">>

\* pd.cut: bin k is (bins[k], bins[k+1]], and a value in no bin, or NaN, has
\* no label
Cut(cell, bins, labels) ==
    IF cell.kind # "num" THEN NA
    ELSE LET hit == {k \in 1..Len(labels) :
                        /\ bins[k] < cell.value
                        /\ (k + 1 > Len(bins) \/ cell.value <= bins[k + 1])}
         IN IF hit = {} THEN NA ELSE labels[CHOOSE k \in hit : TRUE]

\* lines 170-174
TitleFeatureGroup(row) ==
    <<IF row.has_numbers = "True" THEN "Has Numbers" ELSE "No Numbers",
      IF row.has_special_chars = "True" THEN "Has Special Chars"
                                        ELSE "No Special Chars">>

DeriveRow(row) ==
    [row EXCEPT !.title_length_group = Cut(row.title_length, title_length_bins,
                                           title_length_labels),
                !.word_count_group = Cut(row.word_count, word_count_bins,
                                         word_count_labels),
                !.popularity_category = Cut(row.popularity, popularity_bins,
                                            popularity_labels),
                !.title_feature_group = TitleFeatureGroup(row)]

\* the rows the raw datasets are made of
PlainRow ==
    [track_name |-> "Alpha", artist_name |-> "Ann", popularity |-> Num(50),
     duration_ms |-> Num(200000), title_length |-> Num(5), word_count |-> Num(1),
     has_numbers |-> "False", has_special_chars |-> "False", category |-> "pop",
     title_length_group |-> NoColumn, word_count_group |-> NoColumn,
     popularity_category |-> NoColumn, title_feature_group |-> NoColumn]

RawRows ==
    {PlainRow,
     \* the same key again
     [PlainRow EXCEPT !.popularity = Num(80)],
     \* above every range
     [PlainRow EXCEPT !.track_name = "Bravo", !.popularity = Num(150),
                      !.duration_ms = Num(4000000), !.title_length = Num(250),
                      !.word_count = Num(75), !.has_numbers = "True"],
     \* below every range
     [PlainRow EXCEPT !.track_name = "Charlie", !.popularity = Num(-5),
                      !.duration_ms = Num(-1), !.title_length = Num(-1),
                      !.word_count = Num(-1)],
     \* on the edges of every range
     [PlainRow EXCEPT !.track_name = "India", !.popularity = Num(100),
                      !.duration_ms = Num(3600000), !.title_length = Num(200),
                      !.word_count = Num(50), !.has_special_chars = "True"],
     [PlainRow EXCEPT !.track_name = "Juliett", !.popularity = Num(0),
                      !.duration_ms = Num(0), !.title_length = Num(0),
                      !.word_count = Num(0)],
     \* missing key values
     [PlainRow EXCEPT !.track_name = NA],
     [PlainRow EXCEPT !.track_name = "Delta", !.popularity = NaN],
     [PlainRow EXCEPT !.track_name = "Hotel", !.category = NA],
     \* missing features
     [PlainRow EXCEPT !.track_name = "Golf", !.title_length = NaN,
                      !.word_count = NaN, !.has_numbers = NA,
                      !.has_special_chars = NA],
     \* strings in numeric columns
     [PlainRow EXCEPT !.track_name = "Echo", !.popularity = OtherText],
     [PlainRow EXCEPT !.track_name = "Foxtrot", !.title_length = OtherText,
                      !.word_count = NumericText(3)]}

RawDatasets ==
    {[category_column |-> column, rows |-> rows] :
        column \in {"genre", "genre_category"}, rows \in SeqsUpTo(RawRows, MaxRows)}

CleanerInit ==
    /\ ConstructedWith(FALSE)
    /\ api_budget = 0
    /\ IdleLocals
    /\ pc = "raw"
    /\ df \in RawDatasets
    /\ cleaned_df = NoDataset
    /\ returned = <<>>
    /\ ItemIdle
    /\ RecoveryIdle
    /\ TestsIdle

CleanerFrame == UNCHANGED <<collector_vars, item_vars, recovery_vars, tests_vars>>

\* _handle_missing_values; a key column the frame does not have is a KeyError
\* of dropna, raised after the copy of line 74
HandleMissingValues ==
    /\ pc = "raw"
    /\ IF HasKeyColumns(df)
       THEN /\ cleaned_df' =
                   LET present == SelectSeq(df.rows, KeyValuesPresent)
                   IN [df EXCEPT !.rows = [k \in 1..Len(present) |->
                                              FillDerived(present[k])]]
            /\ pc' = "duplicates"
       ELSE /\ cleaned_df' = df
            /\ pc' = "key_error"
    /\ UNCHANGED <<df, returned>>
    /\ CleanerFrame

\* _remove_duplicates
RemoveDuplicates ==
    /\ pc = "duplicates"
    /\ cleaned_df' = [cleaned_df EXCEPT !.rows = DropDuplicates(@, {})]
    /\ pc' = "types"
    /\ UNCHANGED <<df, returned>>
    /\ CleanerFrame

\* _validate_data_types
ValidateDataTypes ==
    /\ pc = "types"
    /\ cleaned_df' = [cleaned_df EXCEPT !.rows = [k \in 1..Len(@) |-> CoerceTypes(@[k])]]
    /\ pc' = "outliers"
    /\ UNCHANGED <<df, returned>>
    /\ CleanerFrame

\* _handle_outliers
HandleOutliers ==
    /\ pc = "outliers"
    /\ cleaned_df' = [cleaned_df EXCEPT !.rows = [k \in 1..Len(@) |-> ClipRow(@[k])]]
    /\ pc' = "derive"
    /\ UNCHANGED <<df, returned>>
    /\ CleanerFrame

\* _create_derived_features.  On a frame without rows, apply(..., axis=1)
\* returns a frame instead of a column, and whether its assignment at line
\* 170 raises ValueError depends on the pandas installed: both outcomes.
CreateDerivedFeatures ==
    /\ pc = "derive"
    /\ \/ /\ cleaned_df' = [cleaned_df EXCEPT !.rows = [k \in 1..Len(@) |-> DeriveRow(@[k])]]
          /\ pc' = "validate"
       \/ /\ cleaned_df.rows = <<>>
          /\ cleaned_df' = cleaned_df
          /\ pc' = "value_error"
    /\ UNCHANGED <<df, returned>>
    /\ CleanerFrame

\* _validate_cleaned_data, which reports and changes nothing, and the return
\* of line 59
ValidateCleanedData ==
    /\ pc = "validate"
    /\ returned' = Append(returned, cleaned_df)
    /\ pc' = "cleaned"
    /\ UNCHANGED <<df, cleaned_df>>
    /\ CleanerFrame

\* SpotifyDataCleaner(df) on the dataset the last clean_data returned
CleanTheOutput ==
    /\ pc = "cleaned"
    /\ Len(returned) < MaxCleanings
    /\ df' = returned[Len(returned)]
    /\ cleaned_df' = NoDataset
    /\ pc' = "raw"
    /\ UNCHANGED returned
    /\ CleanerFrame

CleanerNext ==
    \/ HandleMissingValues
    \/ RemoveDuplicates
    \/ ValidateDataTypes
    \/ HandleOutliers
    \/ CreateDerivedFeatures
    \/ ValidateCleanedData
    \/ CleanTheOutput

SpecCleaner == CleanerInit /\ [][CleanerNext]_vars

(***************************************************************************)
(* The hypothesis test suite: TitleFeatureAnalyzer (statistical_tests.py), *)
(* ResultsInterpreter (results_interpretation.py) and the "Run All Tests"  *)
(* path of run_step_7 (main.py).  The statistics scipy computes on the     *)
(* dataset are inputs.  p-values, correlations and effect sizes are        *)
(* counted in thousandths: 50 is 0.05.  A conclusion is the parts its      *)
(* string is formatted from.                                               *)
(***************************************************************************)
\* statistical_tests.py lines 112, 121, 129 and 140: 0.05
analyzer_alpha == 50
\* results_interpretation.py lines 92, 139 and 171: 0.05
interpreter_alpha == 50
\* test_setup.py lines 177-185: .sample(5000)
shapiro_sample == 5000

\* statistical_tests.py line 115
strength_bands == <<300, 500>>
\* statistical_tests.py line 124
eta_squared_bands == <<60, 140>>
\* statistical_tests.py line 132
cohens_d_bands == <<500, 800>>
\* results_interpretation.py lines 96-100
correlation_bands == <<100, 300, 500>>

Abs(x) == IF x < 0 THEN -x ELSE x

\* the statistics a dataset can give
PValues == {0, 49, 50, 51, 1000}
Correlations == {-501, -500, -100, 0, 99, 100, 299, 300, 499, 500, 501}
EtaSquareds == {0, 59, 60, 61, 139, 140, 141}
CohensDs == {-801, -800, -500, 0, 499, 500, 501, 799, 800, 801}

NoFinding == [found |-> FALSE, effect |-> "", direction |-> ""]

\* _interpret_correlation of the analyzer, lines 110-117
AnalyzerInterpretCorrelation(correlation, p_value) ==
    IF p_value > analyzer_alpha THEN NoFinding
    ELSE [found |-> TRUE,
          effect |-> IF Abs(correlation) > strength_bands[2] THEN "strong"
                     ELSE IF Abs(correlation) > strength_bands[1] THEN "moderate"
                     ELSE "weak",
          direction |-> IF correlation > 0 THEN "positive" ELSE "negative"]

\* _interpret_anova of the analyzer, lines 119-125
AnalyzerInterpretAnova(p_value, eta_squared) ==
    IF p_value > analyzer_alpha THEN NoFinding
    ELSE [found |-> TRUE,
          effect |-> IF eta_squared > eta_squared_bands[2] THEN "large"
                     ELSE IF eta_squared > eta_squared_bands[1] THEN "medium"
                     ELSE "small",
          direction |-> ""]

\* _interpret_ttest of the analyzer, lines 127-134
AnalyzerInterpretTtest(p_value, cohens_d) ==
    IF p_value > analyzer_alpha THEN NoFinding
    ELSE [found |-> TRUE,
          effect |-> IF Abs(cohens_d) > cohens_d_bands[2] THEN "large"
                     ELSE IF Abs(cohens_d) > cohens_d_bands[1] THEN "medium"
                     ELSE "small",
          direction |-> IF cohens_d > 0 THEN "higher" ELSE "lower"]

\* the dataclass TestResult, lines 16-25
TestResult(test_name, test_statistic, p_value, effect_size, conclusion) ==
    [test_name |-> test_name, test_statistic |-> test_statistic,
     p_value |-> p_value, effect_size |-> effect_size, conclusion |-> conclusion]

\* get_summary, line 140: sum(1 for r in self.results if r.p_value < 0.05)
SignificantTests(test_list) ==
    Cardinality({i \in 1..Len(test_list) : test_list[i].p_value < analyzer_alpha})

\* lines 92-93, 139-140, 171-172 of the interpreter
SignificanceLevel(p_value) ==
    IF p_value < interpreter_alpha THEN "significant" ELSE "not significant"

\* lines 96-103 of the interpreter
CorrelationEffectSize(corr) ==
    IF Abs(corr) < correlation_bands[1] THEN "negligible"
    ELSE IF Abs(corr) < correlation_bands[2] THEN "small"
    ELSE IF Abs(corr) < correlation_bands[3] THEN "medium"
    ELSE "large"

\* _interpret_correlation of the interpreter, lines 88-122
InterpretCorrelation(correlation_result) ==
    [key |-> "title_length",
     significance |-> SignificanceLevel(correlation_result.p_value),
     effect_size |-> CorrelationEffectSize(correlation_result.statistic),
     direction |-> IF correlation_result.statistic > 0 THEN "positive" ELSE "negative"]

\* _interpret_group_comparison, lines 135-154
InterpretGroupComparison(group_result) ==
    [key |-> "word_count",
     significance |-> SignificanceLevel(group_result.p_value),
     effect_size |-> "", direction |-> ""]

\* _interpret_anova of the interpreter, lines 167-186
InterpretAnova(anova_result) ==
    [key |-> "title_features",
     significance |-> SignificanceLevel(anova_result.p_value),
     effect_size |-> "", direction |-> ""]

\* 'key' in self.results, lines 49, 57, 64.  For a dict it is the presence of
\* the key; for a list it is whether an element equals the string, and a
\* TestResult equals no string.
HasKey(input, present) == input.kind = "dict" /\ present

IsSignificant(interp) == interp.significance = "significant"

\* _generate_business_insights, lines 215-236: the summary line, then one line
\* for each significant interpretation
GenerateBusinessInsights(interps) ==
    LET significant == SelectSeq(interps, IsSignificant)
        summary == IF Len(significant) = 0 THEN "none significant"
                   ELSE IF Len(significant) = Len(interps) THEN "all significant"
                   ELSE "some significant"
    IN <<[kind |-> "summary", about |-> summary]>>
           \o [k \in 1..Len(significant) |->
                  [kind |-> "significant", about |-> significant[k].key]]

\* interpret_all_results, lines 49-68
Interpretations(input) ==
    (IF HasKey(input, input.title_length_correlation.present)
     THEN <<InterpretCorrelation(input.title_length_correlation)>> ELSE <<>>)
    \o (IF HasKey(input, input.word_count_groups.present)
        THEN <<InterpretGroupComparison(input.word_count_groups)>> ELSE <<>>)
    \o (IF HasKey(input, input.title_features_anova.present)
        THEN <<InterpretAnova(input.title_features_anova)>> ELSE <<>>)

TestsFrame == UNCHANGED <<collector_vars, item_vars, recovery_vars, cleaner_vars>>

\* run_step_7 with test choice "5" on a dataset of some number of rows
TestsInit ==
    /\ ConstructedWith(FALSE)
    /\ api_budget = 0
    /\ IdleLocals
    /\ pc = "step7"
    /\ TestsIdle
    /\ ItemIdle
    /\ RecoveryIdle
    /\ CleanerIdle

\* main.py lines 631-635: TestSetup(df).setup_tests(), whose Shapiro checks
\* sample 5000 rows (ValueError on a smaller dataset, caught at main.py line
\* 647), then the analyzer is built
SetupTests ==
    /\ pc = "step7"
    /\ \E rows \in {shapiro_sample - 1, shapiro_sample} :
          pc' = IF rows < shapiro_sample THEN "step_failed" ELSE "correlation"
    /\ UNCHANGED tests_vars
    /\ TestsFrame

\* _test_title_length_correlation
TestTitleLengthCorrelation ==
    /\ pc = "correlation"
    /\ \E correlation \in Correlations, p_value \in PValues :
          results' = Append(results,
              TestResult("Title Length Correlation", correlation, p_value,
                         Abs(correlation),
                         AnalyzerInterpretCorrelation(correlation, p_value)))
    /\ pc' = "anova"
    /\ UNCHANGED <<test_results, interpretations, business_insights>>
    /\ TestsFrame

\* _test_word_count_groups; the F statistic plays no part in what follows
TestWordCountGroups ==
    /\ pc = "anova"
    /\ \E eta_squared \in EtaSquareds, p_value \in PValues :
          results' = Append(results,
              TestResult("Word Count ANOVA", 0, p_value, eta_squared,
                         AnalyzerInterpretAnova(p_value, eta_squared)))
    /\ pc' = "ttest"
    /\ UNCHANGED <<test_results, interpretations, business_insights>>
    /\ TestsFrame

\* _test_special_characters; the t statistic has the sign of Cohen's d
TestSpecialCharacters ==
    /\ pc = "ttest"
    /\ \E cohens_d \in CohensDs, p_value \in PValues :
          results' = Append(results,
              TestResult("Special Characters t-test", cohens_d, p_value,
                         Abs(cohens_d), AnalyzerInterpretTtest(p_value, cohens_d)))
    /\ pc' = "tested"
    /\ UNCHANGED <<test_results, interpretations, business_insights>>
    /\ TestsFrame

\* main.py lines 638-639: ResultsInterpreter(results).interpret_all_results()
\* with the list run_all_tests returned
InterpretTheResults ==
    /\ pc = "tested"
    /\ LET input == [NoTestResults EXCEPT !.kind = "list", !.items = results] IN
          /\ test_results' = input
          /\ interpretations' = Interpretations(input)
          /\ business_insights' = GenerateBusinessInsights(Interpretations(input))
    /\ pc' = "interpreted"
    /\ UNCHANGED results
    /\ TestsFrame

TestsNext ==
    \/ SetupTests
    \/ TestTitleLengthCorrelation
    \/ TestWordCountGroups
    \/ TestSpecialCharacters
    \/ InterpretTheResults

SpecTests == TestsInit /\ [][TestsNext]_vars

\* an interpreter built with a dict of test results, as its constructor
\* documents
TestResultDicts ==
    {[kind |-> "dict", items |-> <<>>, title_length_correlation |-> c,
      word_count_groups |-> g, title_features_anova |-> a] :
        c \in {NoEntry} \cup {Entry(r, p) : r \in Correlations, p \in PValues},
        g \in {NoEntry} \cup {Entry(0, p) : p \in PValues},
        a \in {NoEntry} \cup {Entry(0, p) : p \in PValues}}

InterpreterInit ==
    /\ ConstructedWith(FALSE)
    /\ api_budget = 0
    /\ IdleLocals
    /\ pc = "interpreter"
    /\ results = <<>>
    /\ test_results \in TestResultDicts
    /\ interpretations = <<>>
    /\ business_insights = <<>>
    /\ ItemIdle
    /\ RecoveryIdle
    /\ CleanerIdle

\* interpret_all_results
InterpretAllResults ==
    /\ pc = "interpreter"
    /\ interpretations' = Interpretations(test_results)
    /\ business_insights' = GenerateBusinessInsights(Interpretations(test_results))
    /\ pc' = "interpreted"
    /\ UNCHANGED <<results, test_results>>
    /\ TestsFrame

SpecInterpreter == InterpreterInit /\ [][InterpretAllResults]_vars

(***************************************************************************)
(* Properties.                                                             *)
(***************************************************************************)
\* no two records of a list share (track_name, artist_name)
UniqueKeys(tracks) ==
    \A i, j \in 1..Len(tracks) :
        (/\ tracks[i].track_name = tracks[j].track_name
         /\ tracks[i].artist_name = tracks[j].artist_name) => i = j

\* the cohorts of the resolved cells from..Len(cells), one after another
RECURSIVE CohortsFrom(_, _)
CohortsFrom(cells, from) ==
    IF from > Len(cells) THEN <<>>
    ELSE cells[from].cohort \o CohortsFrom(cells, from + 1)

\* sub occurs in whole as a run of consecutive records
OccursIn(sub, whole) ==
    \E k \in 0..(Len(whole) - Len(sub)) :
        \A i \in 1..Len(sub) : whole[k + i] = sub[i]

\* C1: within one collection run, no two Track Records of the returned
\* dataset share (track_name, artist_name), whatever the search API returns.
C1_UniqueAcrossRun ==
    pc = "done" => UniqueKeys(all_tracks)

\* C2: a record is kept only for an item whose release date parses (first 4
\* characters) to a year, and it carries that year; an item with a
\* mismatching, unparseable, missing or empty release date is not kept.
C2_ReleaseYearVerified ==
    (pc = "items" /\ outcome = "append") =>
        /\ track.album.has_release_date
        /\ ParseInt(First4(track.album.release_date)).ok
        /\ ParseInt(First4(track.album.release_date)).val =
               year_tracks[Len(year_tracks)].release_year

\* C3: once a cell is resolved and the collector has gone on, the cell's
\* cohort is in the checkpoint file of its category, so every completed
\* cohort can be retrieved from disk whatever happens later.
C3_CheckpointedBeforeNextCell ==
    \A i \in 1..Len(resolved) :
        (i < Len(resolved) \/ pc # "cell_done") =>
            OccursIn(resolved[i].cohort, checkpoint[resolved[i].genre])

\* C4 as claimed: a run that ends with no record for any category raises
\* RunFailure to the caller of collect_tracks.
C4_EmptyRunRaises ==
    (pc = "done" /\ \A i \in 1..Len(resolved) : resolved[i].cohort = <<>>) =>
        result = "raised"

\* C4 amended: a run that ends with no record for any category returns None
\* to the caller of collect_tracks (nothing is raised); a run in which some
\* category produced a record returns the dataset.
C4_EmptyRunReturnsNone ==
    pc = "done" =>
        IF \A i \in 1..Len(resolved) : resolved[i].cohort = <<>>
        THEN result = "none"
        ELSE result = "dataset"

C4_Witness ==
    /\ pc = "done"
    /\ result = "none"
    /\ Len(resolved) = Len(genres) * Len(years)
    /\ api_budget < RunBudget

\* C5: after a failed page request or a failure while a page is processed,
\* the call requests and processes nothing more, raises nothing, keeps the
\* records appended before the error and returns their number; the
\* collector then goes on with the next query string or attempt.
C5_ErrorAbandonsQuery ==
    stop = "error" =>
        /\ pc \notin {"page", "await", "items"}
        /\ result # "raised"
        /\ pc = "ret" => year_tracks = err_tracks
        /\ (pc = "queries" /\ qi > 1) =>      \* the call has just returned
              /\ year_tracks = err_tracks
              /\ Len(err_tracks) = tracks_before + appended
              /\ tracks_found = appended
              /\ result = "running"
              /\ ENABLED (CallSearch \/ EndAttempt)

C5_Witness ==
    /\ pc = "queries"
    /\ qi > 1
    /\ stop = "error"
    /\ appended > 0
    /\ tracks_found = appended

\* C6: the cohort of the cell being collected never holds more than
\* tracks_per_year records, and every step inside a cell leaves it as it is
\* or appends exactly one record (a new cell starts with a new, empty cohort).
C6_Bounded == Len(year_tracks) <= tracks_per_year

C6_StepAppendsAtMostOne ==
    pc # "years" =>
        \/ year_tracks' = year_tracks
        \/ /\ Len(year_tracks') = Len(year_tracks) + 1
           /\ SubSeq(year_tracks', 1, Len(year_tracks)) = year_tracks

CallRank ==
    CASE pc = "page" -> (550 - offset) * 54 + 54
      [] pc = "await" -> (550 - offset) * 54 + 53
      [] pc = "items" -> (550 - offset) * 54 + 52 - ti
      [] pc = "ret" -> 1
      [] OTHER -> 0

\* A measure of the work a cell has left: the attempts left, then the query
\* strings left in the attempt, then the work left in the call.
CellRank ==
    LET left == 3 * Len(genre_categories[Genre]) - attempts IN
    CASE pc = "attempt" -> left * 90000
      [] pc = "queries" -> (left - 1) * 90000 + (3 - qi) * 30000 + 1
      [] pc \in {"page", "await", "items", "ret"} ->
             (left - 1) * 90000 + (2 - qi) * 30000 + 1 + CallRank
      [] OTHER -> -1

\* C8: the attempts of a cell never exceed 3 * len(variants); an attempt
\* starts only below the target; a resolved cell is SATISFIED (cohort size
\* equals tracks_per_year) or EXHAUSTED (3 * len(variants) attempts made,
\* cohort below tracks_per_year); and every cell being collected is
\* eventually resolved: between its search calls the collector can always
\* take its next step, and every step of the cell, a step inside a search
\* call included, lowers a measure that cannot fall below zero.
Collecting == {"attempt", "queries", "page", "await", "items", "ret"}

C8_Inv ==
    /\ pc \in Collecting \cup {"cell_done"} =>
          attempts <= 3 * Len(genre_categories[Genre])
    /\ (pc = "queries" /\ qi = 1) =>
          /\ Len(year_tracks) < tracks_per_year
          /\ attempts < 3 * Len(genre_categories[Genre])
    /\ pc = "cell_done" =>
          \/ Len(year_tracks) = tracks_per_year
          \/ /\ attempts = 3 * Len(genre_categories[Genre])
             /\ Len(year_tracks) < tracks_per_year
    /\ pc \in Collecting => CellRank >= 0
    /\ pc = "attempt" => ENABLED (StartAttempt \/ CellDone)
    /\ pc = "queries" => ENABLED (CallSearch \/ EndAttempt)

C8_StepLowersRank ==
    pc \in Collecting => (pc' \in Collecting \cup {"cell_done"} /\ CellRank' < CellRank)

InSearch == {"page", "await", "items", "ret"}

C9_Inv ==
    /\ pc = "await" =>
          /\ request.limit = 50
          /\ request.offset < 500
          /\ request.offset > last_offset
          /\ Len(year_tracks) < tracks_per_year
          /\ stop = "none"
    /\ (pc \in InSearch /\ stop # "none") => pc = "ret"
    /\ pc \in InSearch => (CallRank >= 1 /\ ENABLED SearchNext)

C9_StepLowersRank ==
    pc \in InSearch => (pc' \in InSearch \cup {"queries"} /\ CallRank' < CallRank)

C9_SearchTerminates == []C9_Inv /\ [][C9_StepLowersRank]_vars

C9_Witness ==
    /\ pc = "ret"
    /\ stop = "none"
    /\ offset >= 500
    /\ Len(year_tracks) < tracks_per_year

\* C10: the cells are resolved one after another in category-major,
\* year-minor order (categories pop, rock, hip-hop, electronic, jazz,
\* classical, metal, r&b; years 2024 down to 2020), each exactly once; every
\* page request is for the first cell not yet resolved; the run ends only
\* when all cells are resolved.
C10_Categories ==
    <<"pop", "rock", "hip-hop", "electronic", "jazz", "classical", "metal", "r&b">>

C10_Years == <<2024, 2023, 2022, 2021, 2020>>

\* the i-th cell of a run over the first ng categories and the first ny years
C10_Cell(i, ny) ==
    [genre |-> C10_Categories[((i - 1) \div ny) + 1],
     year |-> C10_Years[((i - 1) % ny) + 1]]

C10_CellOrder ==
    LET ng == Min(NumGenres, Len(C10_Categories))
        ny == Min(NumYears, Len(C10_Years))
    IN
    /\ Len(resolved) <= ng * ny
    /\ \A i \in 1..Len(resolved) :
          /\ resolved[i].genre = C10_Cell(i, ny).genre
          /\ resolved[i].year = C10_Cell(i, ny).year
    /\ pc = "await" =>
          /\ Len(resolved) < ng * ny
          /\ call.genre = C10_Cell(Len(resolved) + 1, ny).genre
          /\ call.target_year = C10_Cell(Len(resolved) + 1, ny).year
          /\ request.q.year = call.target_year
    /\ pc = "done" => Len(resolved) = ng * ny

C10_Witness ==
    /\ pc = "done"
    /\ Len(resolved) = Len(genres) * Len(years)
    /\ Len(genres) >= 2
    /\ Len(years) >= 2
    /\ resolved[Len(resolved)].cohort # <<>>
\* C11: for every integer total a caller passes to collect_tracks, the
\* per-year sub-target of the run is max(1, floor(total / 5)): 2 for a total
\* of 10, 1 for a total below 5.
C11_PerYearSubTarget ==
    pc = "genres" =>
        LET floored == target_per_genre \div 5 IN
        /\ tracks_per_year = IF floored > 1 THEN floored ELSE 1
        /\ target_per_genre = 10 => tracks_per_year = 2
        /\ target_per_genre < 5 => tracks_per_year = 1
\* C12: no record with a popularity below 15 is ever in a cohort or in the
\* lists built from the cohorts; an item the loop body handles is skipped
\* when its popularity is below 15, and appended when its popularity is at
\* least 15, no record of the cohort has its title and artist, and its
\* release date gives the target year (the loop body only handles items
\* while the cohort is below its target).
C12_PopularityFloor ==
    /\ \A tracks \in {year_tracks, all_genre_tracks, all_tracks} :
          \A i \in 1..Len(tracks) : tracks[i].popularity >= 15
    /\ (pc = "items" /\ track # NoTrack) =>
          LET before == IF outcome = "append"
                        THEN SubSeq(year_tracks, 1, Len(year_tracks) - 1)
                        ELSE year_tracks
              fresh == \A i \in 1..Len(before) :
                          \/ before[i].track_name # track.name
                          \/ before[i].artist_name # track.artists[1]
              dated == /\ track.album.has_release_date
                       /\ ParseInt(First4(track.album.release_date)).ok
                       /\ ParseInt(First4(track.album.release_date)).val =
                              call.target_year
          IN
          /\ Len(before) < tracks_per_year
          /\ track.popularity < 15 => outcome = "skip"
          /\ (track.popularity >= 15 /\ fresh /\ dated) =>
                /\ outcome = "append"
                /\ year_tracks[Len(year_tracks)].track_name = track.name
                /\ year_tracks[Len(year_tracks)].popularity = track.popularity

C12_Witness ==
    /\ pc = "items"
    /\ outcome = "append"
    /\ track.popularity = 15
    /\ Len(year_tracks) = 2
\* C13: every record the collector keeps has a popularity from 0 to 100, a
\* title_length of at least 1 and a word_count of at least 1, whatever item
\* the search API returned.
C13_RecordRanges ==
    \A i \in 1..Len(kept.tracks) :
        /\ kept.tracks[i].popularity >= 0
        /\ kept.tracks[i].popularity <= 100
        /\ kept.tracks[i].title_length >= 1
        /\ kept.tracks[i].word_count >= 1

\* the number of whitespace-delimited tokens of a title: the positions where
\* a character that is no whitespace follows the start or a whitespace
C14_Tokens(title) ==
    Cardinality({i \in 1..Len(title) :
                    /\ title[i] \notin {" ", "\t"}
                    /\ (i = 1 \/ title[i - 1] \in {" ", "\t"})})

C14_CountsOf(rec) ==
    /\ rec.title_length = Len(rec.track_name)
    /\ rec.word_count = C14_Tokens(rec.track_name)

\* C14 as claimed: title_length is the character count of the title and
\* word_count its number of whitespace-delimited tokens; "Lost In
\* Translation" has word_count 3 and title_length 20.
C14_LengthTwentyClaimed ==
    \A i \in 1..Len(kept.tracks) :
        /\ C14_CountsOf(kept.tracks[i])
        /\ kept.tracks[i].track_name = LostInTranslation =>
              /\ kept.tracks[i].word_count = 3
              /\ kept.tracks[i].title_length = 20

\* C14 amended: title_length is the character count of the title (every
\* character counts, whitespace included) and word_count its number of
\* whitespace-delimited tokens; "Lost In Translation" has word_count 3 and
\* title_length 19.
C14_LengthAndWordCount ==
    \A i \in 1..Len(kept.tracks) :
        /\ C14_CountsOf(kept.tracks[i])
        /\ kept.tracks[i].track_name = LostInTranslation =>
              /\ kept.tracks[i].word_count = 3
              /\ kept.tracks[i].title_length = 19

C14_Witness ==
    /\ pc = "handled"
    /\ kept.outcome = "append"
    /\ kept.tracks[1].track_name = LostInTranslation

\* the flags of the titles the claim names
C15_Examples(rec) ==
    /\ rec.track_name = NinetyNineProblems => rec.has_numbers
    /\ rec.track_name = RockAndRoll => rec.has_special_chars
    /\ rec.track_name = LostInTranslation =>
          (~rec.has_numbers /\ ~rec.has_special_chars)

\* has_special_chars: some character is neither a letter nor a digit of any
\* kind nor whitespace
C15_SpecialOf(rec) ==
    rec.has_special_chars <=>
        \E k \in 1..Len(rec.track_name) :
            rec.track_name[k] \notin Letters \cup Digits \cup OtherDigits \cup {" ", "\t"}

\* C15 as claimed: has_numbers is true exactly when some character of the
\* title is a decimal digit, has_special_chars exactly when some character
\* is neither alphanumeric nor whitespace; "99 Problems" has a digit, "Rock
\* & Roll" a special character, "Lost In Translation" neither.
C15_DecimalDigitClaimed ==
    \A i \in 1..Len(kept.tracks) :
        /\ kept.tracks[i].has_numbers <=>
              \E k \in 1..Len(kept.tracks[i].track_name) :
                  kept.tracks[i].track_name[k] \in
                      {"0", "1", "2", "3", "4", "5", "6", "7", "8", "9"}
        /\ C15_SpecialOf(kept.tracks[i])
        /\ C15_Examples(kept.tracks[i])

\* C15 amended: has_numbers is true exactly when some character of the
\* title is a digit as str.isdigit understands it, a decimal digit or
\* another digit character such as SUPERSCRIPT TWO; has_special_chars
\* exactly when some character is neither alphanumeric nor whitespace; the
\* three titles have the flags the claim gives them.
C15_DigitAndSpecialFlags ==
    \A i \in 1..Len(kept.tracks) :
        /\ kept.tracks[i].has_numbers <=>
              \E k \in 1..Len(kept.tracks[i].track_name) :
                  kept.tracks[i].track_name[k] \in
                      {"0", "1", "2", "3", "4", "5", "6", "7", "8", "9", "sup2"}
        /\ C15_SpecialOf(kept.tracks[i])
        /\ C15_Examples(kept.tracks[i])

C15_Witness ==
    /\ pc = "handled"
    /\ kept.outcome = "append"
    /\ kept.tracks[1].has_numbers
    /\ \A k \in 1..Len(candidate.name) : candidate.name[k] \notin Digits

\* C16: every recovery run that selected a directory returns the
\* consolidated dataset: the rows of all its readable files concatenated in
\* file order, with later rows of an already seen (title, artist) key dropped.
RECURSIVE C16_Concat(_)
C16_Concat(files) ==
    IF files = <<>> THEN <<>>
    ELSE (IF Head(files).readable THEN Head(files).rows ELSE <<>>)
             \o C16_Concat(Tail(files))

RECURSIVE C16_FirstOccurrences(_, _)
C16_FirstOccurrences(rows, seen) ==
    IF rows = <<>> THEN <<>>
    ELSE IF Head(rows) \in seen THEN C16_FirstOccurrences(Tail(rows), seen)
    ELSE <<Head(rows)>> \o C16_FirstOccurrences(Tail(rows), seen \cup {Head(rows)})

C16_Consolidated(dir) == C16_FirstOccurrences(C16_Concat(dir), {})

C16_SelectedADirectory(run) == run.kind \notin {"none_found", "invalid_selection"}

C16_RecoveryConsolidates ==
    \A i \in 1..Len(recovery) :
        C16_SelectedADirectory(recovery[i]) =>
            /\ recovery[i].kind = "recovered"
            /\ recovery[i].rows = C16_Consolidated(temp_dirs[recovery[i].selected])

\* C17: two recovery runs over the same, unchanged directory both return a
\* dataset, with the same number of rows and the same set of keys.
C17_KeySet(rows) == {rows[k] : k \in 1..Len(rows)}

C17_RecoveryIdempotent ==
    \A i, j \in 1..Len(recovery) :
        (/\ i < j
         /\ C16_SelectedADirectory(recovery[i])
         /\ recovery[i].selected = recovery[j].selected) =>
            /\ recovery[i].kind = "recovered"
            /\ recovery[j].kind = "recovered"
            /\ Len(recovery[i].rows) = Len(recovery[j].rows)
            /\ C17_KeySet(recovery[i].rows) = C17_KeySet(recovery[j].rows)

\* C18: a dataset clean_data returns has no missing value in track name,
\* artist name, popularity, duration or category.
C18_CriticalPresent(row) ==
    /\ row.track_name # NA
    /\ row.artist_name # NA
    /\ row.popularity.kind = "num"
    /\ row.duration_ms.kind = "num"
    /\ row.category # NA

C18_NoMissingCriticalValues ==
    \A i \in 1..Len(returned) :
        \A k \in 1..Len(returned[i].rows) : C18_CriticalPresent(returned[i].rows[k])

\* C19: in a dataset clean_data returns every row has popularity in
\* [0,100], duration_ms in [0,3600000], title_length in [0,200] and word_count
\* in [0,50].
C19_Within(cell, low, high) ==
    cell.kind = "num" /\ low <= cell.value /\ cell.value <= high

C19_RowInRanges(row) ==
    /\ C19_Within(row.popularity, 0, 100)
    /\ C19_Within(row.duration_ms, 0, 3600000)
    /\ C19_Within(row.title_length, 0, 200)
    /\ C19_Within(row.word_count, 0, 50)

C19_CleanedRangesHold ==
    \A i \in 1..Len(returned) :
        \A k \in 1..Len(returned[i].rows) : C19_RowInRanges(returned[i].rows[k])

\* C20: clean_data applied to a dataset clean_data returned returns the same
\* dataset.
C20_CleaningIdempotent ==
    \A i \in 1..Len(returned) : i > 1 => returned[i] = returned[i - 1]

\* C23: no page request is sent right after another one: between two
\* consecutive sp.search calls of a run the call sleeps.
C23_RequestsArePaced == [][SendRequest => last_io # "request"]_vars

\* C24: attempt number i of a cell (from 0) uses the genre's query variant
\* at index i mod len(variants); an attempt calls the search first with
\* "year + variant", then with "year + category", and leaves out the second
\* call exactly when the cohort has reached its target.
C24_ExpectedQuery(position) ==
    IF position = 1
    THEN [year |-> Year,
          term |-> genre_categories[Genre][(attempts % Len(genre_categories[Genre])) + 1]]
    ELSE [year |-> Year, term |-> "genre:" \o Genre]

C24_AttemptStep ==
    /\ (pc = "attempt" /\ pc' = "queries") => qi' = 1
    /\ (pc = "queries" /\ qi = 1) => pc' = "page"
    /\ (pc = "queries" /\ qi = 2) =>
           /\ (pc' = "page") <=> (Len(year_tracks) < tracks_per_year)
           /\ (pc' = "attempt") <=> (Len(year_tracks) >= tracks_per_year)
    /\ (pc = "queries" /\ qi > 2) => pc' = "attempt"
    /\ (pc = "queries" /\ pc' = "page") =>
           /\ call'.search_query = C24_ExpectedQuery(qi)
           /\ call'.genre = Genre
           /\ call'.target_year = Year
    /\ (pc = "ret" /\ pc' = "queries") => qi' = qi + 1
    /\ (pc = "queries" /\ pc' = "attempt") => attempts' = attempts + 1

C24_RoundRobinQueries == [][C24_AttemptStep]_vars

\* an attempt after the variants have wrapped around has sent its first query
C24_Witness ==
    /\ pc = "await"
    /\ qi = 1
    /\ attempts = Len(genre_categories[Genre]) + 1
    /\ request.q.term = genre_categories[Genre][2]

\* C25: records stay in first-seen order.  A cohort only grows at its end;
\* the tracks of a genre and of the run only grow at their end, by a whole
\* cohort and a whole genre; a genre's tracks are its cohorts in the order
\* of the years, and the dataset is the genres' tracks in the order of the
\* genres.
C25_IsPrefix(old, new) ==
    Len(old) <= Len(new) /\ SubSeq(new, 1, Len(old)) = old

C25_Cohort(genre, year) ==
    LET hits == {i \in 1..Len(resolved) :
                    resolved[i].genre = genre /\ resolved[i].year = year}
    IN IF hits = {} THEN <<>> ELSE resolved[CHOOSE i \in hits : TRUE].cohort

RECURSIVE C25_GenreTracks(_, _)
C25_GenreTracks(genre, from) ==
    IF from > Len(years) THEN <<>>
    ELSE C25_Cohort(genre, years[from]) \o C25_GenreTracks(genre, from + 1)

RECURSIVE C25_Dataset(_)
C25_Dataset(from) ==
    IF from > Len(genres) THEN <<>>
    ELSE C25_GenreTracks(genres[from], 1) \o C25_Dataset(from + 1)

C25_Placed ==
    /\ (pc = "years" /\ yi > Len(years)) =>
           all_genre_tracks = C25_GenreTracks(Genre, 1)
    /\ pc = "done" => all_tracks = C25_Dataset(1)

C25_Step ==
    /\ pc \in Collecting =>
           /\ C25_IsPrefix(year_tracks, year_tracks')
           /\ Len(year_tracks') <= Len(year_tracks) + 1
    /\ C25_IsPrefix(all_tracks, all_tracks') \/ pc = "idle"
    /\ pc \notin {"genres", "years"} => C25_IsPrefix(all_genre_tracks, all_genre_tracks')
    /\ pc = "cell_done" => all_genre_tracks' = all_genre_tracks \o year_tracks
    /\ (pc = "years" /\ pc' = "genres") => all_tracks' = all_tracks \o all_genre_tracks

C25_FirstSeenOrder == []C25_Placed /\ [][C25_Step]_vars

C25_Witness ==
    /\ pc = "done"
    /\ Len(all_tracks) = 2
    /\ all_tracks[1].genre_category = genres[1]
    /\ all_tracks[2].genre_category = genres[2]

\* C26: from its call to its return, a _search_tracks call changes neither
\* the collector's targets, genres, years and query variants, nor the
\* cohorts of the cells resolved before, nor the lists and counters of its
\* callers; only the accumulator it was given can change.
C26_CallerState ==
    <<tracks_per_year, target_per_genre, genres, years, genre_categories,
      resolved, checkpoint, all_genre_tracks, all_tracks, gi, yi, query_index,
      attempts, result>>

C26_SearchStep ==
    (pc \in InSearch \/ pc' \in InSearch) => UNCHANGED C26_CallerState

C26_SearchFrame == [][C26_SearchStep]_vars

\* a call that caught an error returns while an earlier cell holds a record
C26_Witness ==
    /\ pc = "ret"
    /\ stop = "error"
    /\ \E i \in 1..Len(resolved) : resolved[i].cohort # <<>>

\* C27 as claimed: for every mode and every positive total, the records of
\* one genre (tracks_per_year for each year) do not exceed target_per_genre.
C27_GenreWithinTarget ==
    target_per_genre > 0 => tracks_per_year * Len(years) <= target_per_genre

\* C27 amended: the bound holds for every mode and every total of at least
\* the number of years; a positive total below it gives 1 track per year,
\* which is more than the total.
C27_GenreWithinTargetFromFive ==
    /\ target_per_genre >= Len(years) =>
           tracks_per_year * Len(years) <= target_per_genre
    /\ (target_per_genre > 0 /\ target_per_genre < Len(years)) =>
           /\ tracks_per_year = 1
           /\ tracks_per_year * Len(years) > target_per_genre

\* a total that is not a multiple of the number of years has been applied
C27_Witness ==
    /\ pc = "genres"
    /\ target_per_genre = 2 * Len(years) + 1
    /\ tracks_per_year = 2

\* C28: clean_data accepts a dataset with the columns collect_tracks
\* produces (its category column is genre_category) and having at least one
\* row: the call does not fail on a column, and it returns a dataset.
C28_CollectorRow(row) ==
    /\ row.track_name # NA /\ row.artist_name # NA /\ row.category # NA
    /\ row.popularity.kind = "num" /\ row.popularity.value >= popularity_floor
    /\ row.duration_ms.kind = "num"
    /\ row.title_length.kind = "num" /\ row.title_length.value >= 0
    /\ row.word_count.kind = "num" /\ row.word_count.value >= 0
    /\ row.has_numbers # NA /\ row.has_special_chars # NA

C28_CollectorOutput(frame) ==
    /\ frame.category_column = "genre_category"
    /\ frame.rows # <<>>
    /\ \A k \in 1..Len(frame.rows) : C28_CollectorRow(frame.rows[k])

C28_StagesCompose ==
    C28_CollectorOutput(df) =>
        /\ pc # "key_error"
        /\ pc = "cleaned" => returned # <<>>

\* C29: every record the loop body of _search_tracks accepts has a
\* popularity inside the range the dataset validator expects.
C29_AcceptedPassesValidator ==
    kept.outcome = "append" => ExpectedPopularity(kept.tracks[1].popularity)

\* C21: one rule, significant exactly when p < 0.05, decides everywhere:
\* the conclusion of each test result reports a finding iff its p-value is
\* below 0.05, in agreement with the interpreter's label for that p-value
\* and with the significant_tests count of get_summary.
C21_FindingsReported ==
    Cardinality({i \in 1..Len(results) : results[i].conclusion.found})

C21_OneSignificanceRule ==
    /\ \A i \in 1..Len(results) :
          /\ results[i].conclusion.found <=> results[i].p_value < 50
          /\ results[i].conclusion.found <=>
                 SignificanceLevel(results[i].p_value) = "significant"
    /\ SignificantTests(results) = C21_FindingsReported

\* C22: effect sizes are labelled by the bands |r| < 0.1 negligible, < 0.3
\* small, < 0.5 medium, else large; |d| < 0.5 small, < 0.8 medium, else
\* large; eta-squared < 0.06 small, < 0.14 medium, else large (thousandths).
C22_CorrelationBand(r) ==
    IF r < 100 THEN "negligible" ELSE IF r < 300 THEN "small"
    ELSE IF r < 500 THEN "medium" ELSE "large"

C22_CohensDBand(d) ==
    IF d < 500 THEN "small" ELSE IF d < 800 THEN "medium" ELSE "large"

C22_EtaSquaredBand(eta) ==
    IF eta < 60 THEN "small" ELSE IF eta < 140 THEN "medium" ELSE "large"

C22_LabelledAsBanded(test) ==
    /\ test.test_name = "Title Length Correlation" =>
           CorrelationEffectSize(test.test_statistic) =
               C22_CorrelationBand(test.effect_size)
    /\ (test.test_name = "Special Characters t-test" /\ test.conclusion.found) =>
           test.conclusion.effect = C22_CohensDBand(test.effect_size)
    /\ (test.test_name = "Word Count ANOVA" /\ test.conclusion.found) =>
           test.conclusion.effect = C22_EtaSquaredBand(test.effect_size)

C22_EffectSizeBands ==
    \A i \in 1..Len(results) : C22_LabelledAsBanded(results[i])

\* C30: after "Run All Tests" the interpreter holds one interpretation for
\* each of the three tests run, and its insights report as significant as
\* many tests as have a p-value below 0.05.
C30_SignificantInsights ==
    Cardinality({k \in 1..Len(business_insights) :
                    business_insights[k].kind = "significant"})

C30_AllTestsInterpreted ==
    pc = "interpreted" =>
        /\ Len(interpretations) = Len(results)
        /\ Len(interpretations) = 3
        /\ C30_SignificantInsights =
               Cardinality({i \in 1..Len(results) : results[i].p_value < 50})

====
